---- MODULE Spec2Model ----
(***************************************************************************)
(* Model of the two incremental analysis workers of .claude-flow/scripts:  *)
(* optimize-worker.py (unit list MODULES) and testgaps-worker.py (unit     *)
(* list CRATES).  One behaviour follows one scanner: its state file, its   *)
(* results log and the source tree it measures.                            *)
(***************************************************************************)
EXTENDS Integers, Sequences, FiniteSets, TLC

VARIABLES scanner, tree, stateFile, log, clock, runs, last, selected, saves, start, pc, loc

vars == <<scanner, tree, stateFile, log, clock, runs, last, selected, saves, start, pc, loc>>

(* ------------------------------ bounds --------------------------------- *)
MaxRuns == 5
MaxSkew == 2
Spread == 1
MaxPub == 10
MaxTest == 6

(* ------------------------- program constants --------------------------- *)
MODULES == <<"keyrx_core", "keyrx_daemon", "keyrx_compiler", "keyrx_ui/src">>

CRATES == <<"keyrx_core", "keyrx_daemon", "keyrx_compiler">>

CloneThreshold == 50
StringAllocThreshold == 100
NPlusOneThreshold == 0
CallbackThreshold == 20
MemoizedDivisor == 4
InlineObjectThreshold == 50
AsyncThreshold == 10
AwaitFactor == 5
PubFnDivisor == 2
ResultDivisor == 3
IntegrationThreshold == 3
DocTestThreshold == 5

Scanners == {"optimize", "testgaps"}

Procs == {1, 2}

Units == IF scanner = "optimize" THEN MODULES ELSE CRATES

N == Len(Units)

UnitSet == {Units[k] : k \in 1..N}

Range(s) == {s[k] : k \in 1..Len(s)}

(* list[i] of Python: 0-based, a negative i counts from the end; outside   *)
(* -len..len-1 it raises IndexError.                                       *)
IndexInRange(list, i) == -Len(list) <= i /\ i < Len(list)

PyIndex(list, i) == IF i >= 0 THEN list[i + 1] ELSE list[Len(list) + i + 1]

(* --------------------------- state file -------------------------------- *)
(* last_analyzed: None is -1, a timestamp is a reading of the clock *)
InitialState == [current_index |-> 0, completed |-> <<>>, last_analyzed |-> -1]

NoFile == [exists |-> FALSE, content |-> InitialState]

save_state(state) == [exists |-> TRUE, content |-> state]

(* get_state: the loaded dictionary, the file afterwards and the indices   *)
(* written by the first-run save.                                          *)
get_state(file) ==
    IF ~file.exists
    THEN [state |-> InitialState, file |-> save_state(InitialState), saved |-> <<InitialState.current_index>>]
    ELSE [state |-> file.content, file |-> file, saved |-> <<>>]

(* ---------------------------- measuring -------------------------------- *)
(* The tree holds, per unit, whether its directory exists and what the     *)
(* counters return on it.                                                  *)
path_exists(t, unit) == t[unit].exists

count_patterns(t, unit, metric) == t[unit][metric]

count_in_files(t, unit, metric) == t[unit][metric]

count_files(t, unit, metric) == t[unit][metric]

count_lines(t, unit, metric) == t[unit][metric]

IsUiModule(module_name) == module_name = "keyrx_ui/src"

Advisory(type, severity, count, args) ==
    [type |-> type, severity |-> severity, count |-> count, args |-> args]

When(cond, advisory) == IF cond THEN <<advisory>> ELSE <<>>

(* ----------------------- optimize-worker rules ------------------------- *)
(* variant: the threshold comparison is not strict *)
ExcessiveClones_AtLeast(clone_count) == clone_count >= CloneThreshold

ExcessiveClones(clone_count) == clone_count > CloneThreshold

StringAllocations(string_alloc) == string_alloc > StringAllocThreshold

NPlusOne(n_plus_one) == n_plus_one > NPlusOneThreshold

(* memoized < callbacks / 4 is a true division in Python *)
MissingMemoization(callbacks, memoized) ==
    callbacks > CallbackThreshold /\ MemoizedDivisor * memoized < callbacks

InlineObjects(inline_objects) == inline_objects > InlineObjectThreshold

SequentialAwaits(async_count, await_count) ==
    async_count > AsyncThreshold /\ await_count > async_count * AwaitFactor

OptimizeSuggestions(t, module_name) ==
    LET clone_count == count_patterns(t, module_name, "clones")
        string_alloc == count_patterns(t, module_name, "string_allocations")
        n_plus_one == count_patterns(t, module_name, "potential_n_plus_one")
        callbacks == count_patterns(t, module_name, "callbacks")
        memoized == count_patterns(t, module_name, "memoized")
        inline_objects == count_patterns(t, module_name, "inline_objects")
        async_count == count_patterns(t, module_name, "async_functions")
        await_count == count_patterns(t, module_name, "awaits")
    IN  When(ExcessiveClones(clone_count),
             Advisory("excessive-clones", "medium", <<clone_count>>, <<clone_count>>))
        \o When(StringAllocations(string_alloc),
             Advisory("string-allocations", "low", <<string_alloc>>, <<string_alloc>>))
        \o When(NPlusOne(n_plus_one),
             Advisory("n+1-query", "high", <<n_plus_one>>, <<n_plus_one>>))
        \o (IF IsUiModule(module_name)
            THEN When(MissingMemoization(callbacks, memoized),
                      Advisory("missing-memoization", "medium", <<>>, <<memoized, callbacks>>))
                 \o When(InlineObjects(inline_objects),
                      Advisory("inline-objects", "low", <<inline_objects>>, <<inline_objects>>))
            ELSE <<>>)
        \o When(SequentialAwaits(async_count, await_count),
             Advisory("sequential-awaits", "medium", <<>>, <<>>))

OptimizeMetrics(t, module_name) ==
    IF IsUiModule(module_name)
    THEN [clones |-> count_patterns(t, module_name, "clones"),
          string_allocations |-> count_patterns(t, module_name, "string_allocations"),
          potential_n_plus_one |-> count_patterns(t, module_name, "potential_n_plus_one"),
          callbacks |-> count_patterns(t, module_name, "callbacks"),
          memoized |-> count_patterns(t, module_name, "memoized"),
          inline_objects |-> count_patterns(t, module_name, "inline_objects"),
          async_functions |-> count_patterns(t, module_name, "async_functions"),
          awaits |-> count_patterns(t, module_name, "awaits")]
    ELSE [clones |-> count_patterns(t, module_name, "clones"),
          string_allocations |-> count_patterns(t, module_name, "string_allocations"),
          potential_n_plus_one |-> count_patterns(t, module_name, "potential_n_plus_one"),
          async_functions |-> count_patterns(t, module_name, "async_functions"),
          awaits |-> count_patterns(t, module_name, "awaits")]

(* variant: a module without suggestions is not logged *)
analyze_module_SkipsCleanModule(t, module_name, now) ==
    IF ~path_exists(t, module_name)
    THEN [result |-> [success |-> FALSE, unit |-> module_name, error |-> "Module not found"],
          append |-> <<>>]
    ELSE LET suggestions == OptimizeSuggestions(t, module_name)
             metrics == OptimizeMetrics(t, module_name)
         IN  [result |-> [success |-> TRUE, unit |-> module_name,
                          count |-> Len(suggestions), metrics |-> metrics],
              append |-> IF suggestions = <<>> THEN <<>>
                         ELSE <<[timestamp |-> now, unit |-> module_name,
                                 count |-> Len(suggestions), advisories |-> suggestions,
                                 metrics |-> metrics]>>]

(* analyze_module: the returned result and the records appended to the log *)
analyze_module(t, module_name, now) ==
    IF ~path_exists(t, module_name)
    THEN [result |-> [success |-> FALSE, unit |-> module_name, error |-> "Module not found"],
          append |-> <<>>]
    ELSE LET suggestions == OptimizeSuggestions(t, module_name)
             metrics == OptimizeMetrics(t, module_name)
         IN  [result |-> [success |-> TRUE, unit |-> module_name,
                          count |-> Len(suggestions), metrics |-> metrics],
              append |-> <<[timestamp |-> now, unit |-> module_name,
                            count |-> Len(suggestions), advisories |-> suggestions,
                            metrics |-> metrics]>>]

(* ----------------------- testgaps-worker rules ------------------------- *)
(* variant: the division truncates (//) *)
UntestedFunctions_FloorDiv(pub_fn_count, test_fn_count) ==
    pub_fn_count > 0 /\ test_fn_count < pub_fn_count \div PubFnDivisor

(* test_fn_count < pub_fn_count / 2 is a true division in Python *)
UntestedFunctions(pub_fn_count, test_fn_count) ==
    pub_fn_count > 0 /\ PubFnDivisor * test_fn_count < pub_fn_count

MissingErrorTests(result_count, error_test_count) ==
    result_count > 0 /\ ResultDivisor * error_test_count < result_count

MissingIntegrationTests(integration_tests) == integration_tests < IntegrationThreshold

MissingDocTests(doc_tests) == doc_tests < DocTestThreshold

EstimatedCoverage(source_lines, test_lines) ==
    IF source_lines > 0 THEN (test_lines * 100) \div source_lines ELSE 0

TestGaps(t, crate_name) ==
    LET pub_fn_count == count_in_files(t, crate_name, "public_functions")
        test_fn_count == count_in_files(t, crate_name, "test_functions")
        result_count == count_in_files(t, crate_name, "result_types")
        error_test_count == count_in_files(t, crate_name, "error_tests")
        integration_tests == count_files(t, crate_name, "integration_tests")
        doc_tests == count_in_files(t, crate_name, "doc_tests")
    IN  When(UntestedFunctions(pub_fn_count, test_fn_count),
             Advisory("untested-functions", "high", <<>>, <<pub_fn_count, test_fn_count>>))
        \o When(MissingErrorTests(result_count, error_test_count),
             Advisory("missing-error-tests", "high", <<>>, <<result_count, error_test_count>>))
        \o When(MissingIntegrationTests(integration_tests),
             Advisory("missing-integration-tests", "medium", <<>>, <<integration_tests>>))
        \o When(MissingDocTests(doc_tests),
             Advisory("missing-doc-tests", "low", <<>>, <<doc_tests>>))

TestGapMetrics(t, crate_name) ==
    [public_functions |-> count_in_files(t, crate_name, "public_functions"),
     test_functions |-> count_in_files(t, crate_name, "test_functions"),
     result_types |-> count_in_files(t, crate_name, "result_types"),
     error_tests |-> count_in_files(t, crate_name, "error_tests"),
     integration_tests |-> count_files(t, crate_name, "integration_tests"),
     doc_tests |-> count_in_files(t, crate_name, "doc_tests"),
     source_lines |-> count_lines(t, crate_name, "source_lines"),
     test_lines |-> count_lines(t, crate_name, "test_lines"),
     estimated_coverage |-> EstimatedCoverage(count_lines(t, crate_name, "source_lines"),
                                              count_lines(t, crate_name, "test_lines"))]

analyze_crate(t, crate_name, now) ==
    IF ~path_exists(t, crate_name)
    THEN [result |-> [success |-> FALSE, unit |-> crate_name, error |-> "Crate not found"],
          append |-> <<>>]
    ELSE LET gaps == TestGaps(t, crate_name)
             metrics == TestGapMetrics(t, crate_name)
         IN  [result |-> [success |-> TRUE, unit |-> crate_name, count |-> Len(gaps),
                          estimatedCoverage |-> metrics.estimated_coverage,
                          metrics |-> metrics],
              append |-> <<[timestamp |-> now, unit |-> crate_name, count |-> Len(gaps),
                            estimatedCoverage |-> metrics.estimated_coverage,
                            advisories |-> gaps, metrics |-> metrics]>>]

Analyze(t, unit, now) ==
    IF scanner = "optimize" THEN analyze_module(t, unit, now) ELSE analyze_crate(t, unit, now)

(* ------------------------- rotation controller ------------------------- *)
(* variant: the comparison is off by one *)
WrapIndex_OffByOne(current_index, len) == IF current_index > len THEN 0 ELSE current_index

(* variant: a negative index is reset as well *)
WrapIndex_BothSides(current_index, len) ==
    IF current_index >= len \/ current_index < 0 THEN 0 ELSE current_index

(* "Wrap around if needed": only an index >= len is reset *)
WrapIndex(current_index, len) == IF current_index >= len THEN 0 ELSE current_index

(* variant: the index is not advanced *)
NextIndex_Stuck(current_index, len) == current_index % len

(* variant: the modulo is forgotten *)
NextIndex_NoMod(current_index, len) == current_index + 1

NextIndex(current_index, len) == (current_index + 1) % len

(* variant: the membership test is forgotten *)
MarkCompleted_AlwaysAppend(completed, unit) == Append(completed, unit)

MarkCompleted(completed, unit) ==
    IF unit \in Range(completed) THEN completed ELSE Append(completed, unit)

(* variant: the index is taken from the file as it is at the time of the update *)
UpdateState_Reread(state, current_index, unit, now) ==
    [current_index |-> NextIndex(WrapIndex(stateFile.content.current_index, N), N),
     completed |-> MarkCompleted(state.completed, unit),
     last_analyzed |-> now]

UpdateState(state, current_index, unit, now) ==
    [current_index |-> NextIndex(current_index, N),
     completed |-> MarkCompleted(state.completed, unit),
     last_analyzed |-> now]

(* variant: the failure result is not turned into exit code 1 *)
ExitCode_AlwaysZero(result) == 0

ExitCode(result) == IF result.success THEN 0 ELSE 1

NoResult == [success |-> FALSE, unit |-> "", error |-> ""]

NoRun == [loaded |-> 0, index |-> 0, unit |-> "", raised |-> "none", returned |-> -1,
          result |-> NoResult, appended |-> 0]

(* main(), one whole sequential invocation *)
Main ==
    /\ runs < MaxRuns
    /\ \A p \in Procs : pc[p] = "idle"
    /\ LET g == get_state(stateFile)
           loaded == g.state.current_index
           current_index == WrapIndex(loaded, N)
       IN  IF ~IndexInRange(Units, current_index)
           THEN /\ stateFile' = g.file
                /\ saves' = saves \o g.saved
                /\ last' = [NoRun EXCEPT !.loaded = loaded, !.index = current_index,
                                         !.raised = "IndexError"]
                /\ UNCHANGED <<log, clock, selected>>
           ELSE LET unit == PyIndex(Units, current_index)
                    a == Analyze(tree, unit, clock + 1)
                    state == UpdateState(g.state, current_index, unit, clock + 2)
                IN  /\ stateFile' = save_state(state)
                    /\ saves' = (saves \o g.saved) \o <<state.current_index>>
                    /\ log' = log \o a.append
                    /\ clock' = clock + 2
                    /\ selected' = Append(selected, unit)
                    /\ last' = [loaded |-> loaded, index |-> current_index, unit |-> unit,
                                raised |-> "none", returned |-> ExitCode(a.result),
                                result |-> a.result, appended |-> Len(a.append)]
    /\ runs' = runs + 1
    /\ UNCHANGED <<scanner, tree, start, pc, loc>>

(* ------------------- two invocations, step by step --------------------- *)
NoLocal == [state |-> InitialState, loaded |-> 0, index |-> 0, unit |-> "", raised |-> "none",
            result |-> NoResult, appended |-> 0]

(* get_state() and the selection of the unit *)
GetState(p) ==
    /\ pc[p] = "get_state"
    /\ LET g == get_state(stateFile)
           loaded == g.state.current_index
           current_index == WrapIndex(loaded, N)
       IN  /\ stateFile' = g.file
           /\ saves' = saves \o g.saved
           /\ IF ~IndexInRange(Units, current_index)
              THEN /\ loc' = [loc EXCEPT ![p] = [NoLocal EXCEPT !.loaded = loaded,
                                                  !.index = current_index,
                                                  !.raised = "IndexError"]]
                   /\ pc' = [pc EXCEPT ![p] = "done"]
                   /\ UNCHANGED selected
              ELSE /\ loc' = [loc EXCEPT ![p] = [NoLocal EXCEPT !.state = g.state,
                                                  !.loaded = loaded,
                                                  !.index = current_index,
                                                  !.unit = PyIndex(Units, current_index)]]
                   /\ pc' = [pc EXCEPT ![p] = "analyze"]
                   /\ selected' = Append(selected, PyIndex(Units, current_index))
    /\ UNCHANGED <<scanner, tree, log, clock, runs, last, start>>

(* analyze_module() / analyze_crate(), with its append to the results log *)
AnalyzeUnit(p) ==
    /\ pc[p] = "analyze"
    /\ LET a == Analyze(tree, loc[p].unit, clock + 1)
       IN  /\ log' = log \o a.append
           /\ loc' = [loc EXCEPT ![p].result = a.result, ![p].appended = Len(a.append)]
    /\ clock' = clock + 1
    /\ pc' = [pc EXCEPT ![p] = "save_state"]
    /\ UNCHANGED <<scanner, tree, stateFile, runs, last, selected, saves, start>>

(* the update of the loaded dictionary and save_state() *)
SaveState(p) ==
    /\ pc[p] = "save_state"
    /\ LET state == UpdateState(loc[p].state, loc[p].index, loc[p].unit, clock + 1)
       IN  /\ stateFile' = save_state(state)
           /\ saves' = Append(saves, state.current_index)
    /\ clock' = clock + 1
    /\ runs' = runs + 1
    /\ last' = [loaded |-> loc[p].loaded, index |-> loc[p].index, unit |-> loc[p].unit,
                raised |-> "none", returned |-> ExitCode(loc[p].result),
                result |-> loc[p].result, appended |-> loc[p].appended]
    /\ pc' = [pc EXCEPT ![p] = "done"]
    /\ UNCHANGED <<scanner, tree, log, selected, start, loc>>

(* ------------------------- the measured trees -------------------------- *)
AbsentUnit == [exists |-> FALSE]

OptimizeCounts(c, s, q, cb, mm, io, af, aw) ==
    [exists |-> TRUE, clones |-> c, string_allocations |-> s, potential_n_plus_one |-> q,
     callbacks |-> cb, memoized |-> mm, inline_objects |-> io, async_functions |-> af,
     awaits |-> aw]

TestgapCounts(pf, tf, rc, et, it, dt, sl, tl) ==
    [exists |-> TRUE, public_functions |-> pf, test_functions |-> tf, result_types |-> rc,
     error_tests |-> et, integration_tests |-> it, doc_tests |-> dt, source_lines |-> sl,
     test_lines |-> tl]

Around(t) == (t - Spread)..(t + Spread)

OptimizeSpace ==
    {OptimizeCounts(c, s, q, cb, mm, io, af, aw) :
        c \in Around(CloneThreshold), s \in Around(StringAllocThreshold),
        q \in NPlusOneThreshold..(NPlusOneThreshold + Spread),
        cb \in {20, 21, 24}, mm \in {5, 6}, io \in {50, 51}, af \in {10, 11}, aw \in {55, 56}}

TestgapSpace ==
    {TestgapCounts(pf, tf, rc, et, it, dt, sl, tl) :
        pf \in 0..MaxPub, tf \in 0..MaxTest, rc \in {0, 4}, et \in {1, 2}, it \in {2, 3},
        dt \in {4, 5}, sl \in {0, 100}, tl \in {50}}

QuietUnit ==
    IF scanner = "optimize" THEN OptimizeCounts(0, 0, 0, 0, 0, 0, 0, 0)
    ELSE TestgapCounts(0, 0, 0, 0, 3, 5, 0, 0)

NoisyUnit ==
    IF scanner = "optimize" THEN OptimizeCounts(51, 101, 1, 24, 5, 51, 11, 56)
    ELSE TestgapCounts(10, 2, 4, 1, 0, 0, 100, 50)

Prefix(list, k) == SubSeq(list, 1, k)

(* the state files a run sequence that began with no file leaves behind *)
PersistedStates ==
    UNION {{save_state([current_index |-> i, completed |-> c, last_analyzed |-> 0]) :
               c \in {Prefix(Units, i), Units}} : i \in 0..(N - 1)}

(* state files edited from outside: any integer index *)
CorruptedStates ==
    {save_state([current_index |-> i, completed |-> c, last_analyzed |-> 0]) :
        i \in (0 - N - MaxSkew)..(N + MaxSkew), c \in {<<>>, Units}}

InitRest ==
    /\ log = <<>>
    /\ clock = 0
    /\ runs = 0
    /\ last = NoRun
    /\ selected = <<>>
    /\ saves = <<>>
    /\ start = stateFile
    /\ loc = [p \in Procs |-> NoLocal]

Init ==
    /\ scanner \in Scanners
    /\ tree \in [UnitSet -> {AbsentUnit, QuietUnit, NoisyUnit}]
    /\ stateFile \in {NoFile} \cup PersistedStates
    /\ pc = [p \in Procs |-> "idle"]
    /\ InitRest

InitCorrupt ==
    /\ scanner \in Scanners
    /\ tree \in [UnitSet -> {AbsentUnit, QuietUnit}]
    /\ stateFile \in {NoFile} \cup CorruptedStates
    /\ pc = [p \in Procs |-> "idle"]
    /\ InitRest

InitRules ==
    /\ scanner \in Scanners
    /\ \E m \in (IF scanner = "optimize" THEN OptimizeSpace ELSE TestgapSpace) :
           tree = [u \in UnitSet |-> m]
    /\ stateFile = NoFile
    /\ pc = [p \in Procs |-> "idle"]
    /\ InitRest

InitConc ==
    /\ scanner \in Scanners
    /\ tree \in [UnitSet -> {AbsentUnit, QuietUnit}]
    /\ stateFile \in {NoFile} \cup PersistedStates
    /\ pc = [p \in Procs |-> "get_state"]
    /\ InitRest

Next == Main

NextConc == \E p \in Procs : GetState(p) \/ AnalyzeUnit(p) \/ SaveState(p)

Spec == Init /\ [][Next]_vars

SpecCorrupt == InitCorrupt /\ [][Next]_vars

SpecRules == InitRules /\ [][Next]_vars

SpecConc == InitConc /\ [][NextConc]_vars

(* ======================= properties of the workers ===================== *)
PersistedIndex == stateFile.content.current_index

Completed == stateFile.content.completed

StartIndex == IF start.exists THEN start.content.current_index ELSE 0

UnitAt(i) == Units[(i % N) + 1]

Position(unit) == CHOOSE k \in 1..N : Units[k] = unit

Successor(unit) == Units[(Position(unit) % N) + 1]

IsPrefix(s, t) == Len(s) <= Len(t) /\ SubSeq(t, 1, Len(s)) = s

RECURSIVE FirstOccurrences(_)
FirstOccurrences(s) ==
    IF s = <<>> THEN <<>>
    ELSE LET d == FirstOccurrences(SubSeq(s, 1, Len(s) - 1))
         IN  IF s[Len(s)] \in Range(d) THEN d ELSE Append(d, s[Len(s)])

RECURSIVE LoggedUnits(_)
LoggedUnits(s) ==
    IF s = <<>> THEN <<>>
    ELSE LoggedUnits(SubSeq(s, 1, Len(s) - 1))
         \o (IF tree[s[Len(s)]].exists THEN <<s[Len(s)]>> ELSE <<>>)

UnitNames(records) == [k \in 1..Len(records) |-> records[k].unit]

OfType(advisories, type) == {k \in 1..Len(advisories) : advisories[k].type = type}

NotFound == IF scanner = "optimize" THEN "Module not found" ELSE "Crate not found"

(* C1: from a persisted start index i in [0, N) the k-th sequential         *)
(* invocation selects the unit at index (i + k - 1) mod N, whether or not   *)
(* the unit directories exist; after N invocations every unit has been      *)
(* selected exactly once and the persisted index is i again.                *)
C1_RoundRobin ==
    (start.exists /\ StartIndex \in 0..(N - 1)) =>
        /\ Len(selected) = runs
        /\ \A k \in 1..runs : selected[k] = UnitAt(StartIndex + k - 1)
        /\ runs > 0 => PersistedIndex = (StartIndex + runs) % N
        /\ runs = N =>
              /\ PersistedIndex = StartIndex
              /\ \A u \in UnitSet : Cardinality({k \in 1..N : selected[k] = u}) = 1

C1_Witness ==
    /\ scanner = "optimize"
    /\ start.exists
    /\ StartIndex = 2
    /\ runs = N
    /\ selected = <<"keyrx_compiler", "keyrx_ui/src", "keyrx_core", "keyrx_daemon">>
    /\ ~tree["keyrx_ui/src"].exists
    /\ PersistedIndex = 2

(* C2: every index written by save_state (the first-run initialisation and  *)
(* the update at the end of main) lies in 0..N-1, whatever integer index    *)
(* the invocation loaded.                                                   *)
C2_SavedIndexInRange ==
    /\ \A k \in 1..Len(saves) : 0 <= saves[k] /\ saves[k] < N
    /\ saves # <<>> => PersistedIndex = saves[Len(saves)]

C2_Witness ==
    /\ runs > 0
    /\ last.raised = "none"
    /\ last.loaded = 0 - N
    /\ saves # <<>>
    /\ PersistedIndex = 1

(* C3: an invocation that loads current_index >= N does not raise; it      *)
(* selects and analyses the unit at position 0 and persists 1 mod N.        *)
C3_TooLargeIndexWraps ==
    (runs > 0 /\ last.loaded >= N) =>
        /\ last.raised = "none"
        /\ last.index = 0
        /\ last.unit = Units[1]
        /\ selected[Len(selected)] = Units[1]
        /\ PersistedIndex = 1 % N
        /\ tree[Units[1]].exists =>
              /\ last.result.success
              /\ last.appended = 1
              /\ log[Len(log)].unit = Units[1]

C3_Witness ==
    /\ runs = 1
    /\ last.loaded = N + 1
    /\ tree[Units[1]].exists
    /\ Len(log) = 1
    /\ PersistedIndex = 1

(* C4: an invocation whose selected unit directory is missing returns the  *)
(* failure result (success false, the unit name, 'Module not found' or      *)
(* 'Crate not found') and exit code 1 without raising, and still advances   *)
(* the persisted index, so the next invocation selects the following unit;  *)
(* the exit code is 0 exactly when the selected directory exists.           *)
C4_MissingUnit ==
    /\ (runs > 0 /\ last.raised = "none") =>
          /\ last.returned \in {0, 1}
          /\ last.returned = 0 <=> tree[last.unit].exists
          /\ PersistedIndex = (last.index + 1) % N
          /\ ~tree[last.unit].exists =>
                /\ last.result = [success |-> FALSE, unit |-> last.unit, error |-> NotFound]
                /\ last.returned = 1
    /\ runs > 0 => last.raised = "none"
    /\ \A k \in 1..(Len(selected) - 1) :
          ~tree[selected[k]].exists => selected[k + 1] = Successor(selected[k])

C4_Witness ==
    /\ runs = 2
    /\ ~tree[selected[1]].exists
    /\ selected[2] = Successor(selected[1])
    /\ tree[selected[2]].exists
    /\ last.returned = 0
    /\ start.exists

(* C5 as stated: every completed invocation appends exactly one record, so  *)
(* after k invocations the log holds k records, the j-th naming the unit    *)
(* selected by the j-th invocation.                                         *)
C5_OneRecordPerInvocation ==
    /\ Len(log) = runs
    /\ \A j \in 1..Len(log) : log[j].unit = selected[j]

(* C5 amended: an invocation appends exactly one record when the selected   *)
(* unit directory exists and none when it is missing; the log names, in     *)
(* order, the selected units whose directory exists, and records already    *)
(* written are never changed or removed.                                    *)
C5_LogInvariant ==
    /\ Len(selected) = runs
    /\ UnitNames(log) = LoggedUnits(selected)
    /\ runs > 0 => last.appended = (IF tree[last.unit].exists THEN 1 ELSE 0)

C5_OneRecordPerAnalysedUnit == [] C5_LogInvariant /\ [][IsPrefix(log, log')]_vars

C5_Witness ==
    /\ runs = 3
    /\ tree[selected[1]].exists
    /\ ~tree[selected[2]].exists
    /\ tree[selected[3]].exists
    /\ Len(log) = 2
    /\ log[2].unit = selected[3]

(* C6: from the first-run state the persisted completed list has no        *)
(* duplicates, is the list of distinct selected units in order of first     *)
(* selection, has at most N entries, never shrinks, and equals the unit     *)
(* list (the rotation starting at index 0) after N or more invocations.     *)
C6_CompletedInvariant ==
    (~start.exists /\ runs > 0) =>
        /\ Completed = FirstOccurrences(selected)
        /\ Cardinality(Range(Completed)) = Len(Completed)
        /\ Len(Completed) <= N
        /\ Len(Completed) = (IF runs < N THEN runs ELSE N)
        /\ runs >= N => Completed = Units

C6_CompletedHistory ==
    [] C6_CompletedInvariant
    /\ [][(~start.exists /\ stateFile.exists) => IsPrefix(Completed, Completed')]_vars

C6_Witness ==
    /\ ~start.exists
    /\ runs = N + 1
    /\ Completed = Units
    /\ Len(selected) = N + 1

(* C7: for an analysed module the logged suggestions hold exactly one      *)
(* 'excessive-clones' advisory (medium, count = clone count) when the clone *)
(* count is > 50 and none otherwise, exactly one 'string-allocations' (low) *)
(* iff the count is > 100, exactly one 'n+1-query' (high) iff the count is  *)
(* > 0, and suggestionCount is the number of advisories.                    *)
C7_Rule(record, type, severity, metric, fires) ==
    LET hits == OfType(record.advisories, type)
    IN  /\ Cardinality(hits) = (IF fires THEN 1 ELSE 0)
        /\ \A k \in hits : /\ record.advisories[k].severity = severity
                           /\ record.advisories[k].count = <<record.metrics[metric]>>

C7_CountThresholds ==
    scanner = "optimize" =>
        /\ \A j \in 1..Len(log) :
              /\ C7_Rule(log[j], "excessive-clones", "medium", "clones",
                         log[j].metrics.clones > 50)
              /\ C7_Rule(log[j], "string-allocations", "low", "string_allocations",
                         log[j].metrics.string_allocations > 100)
              /\ C7_Rule(log[j], "n+1-query", "high", "potential_n_plus_one",
                         log[j].metrics.potential_n_plus_one > 0)
              /\ log[j].count = Len(log[j].advisories)
              /\ log[j].metrics.clones = tree[log[j].unit].clones
        /\ (runs > 0 /\ last.result.success) =>
              last.result.count = Len(log[Len(log)].advisories)

C7_Witness ==
    /\ scanner = "optimize"
    /\ runs = 1
    /\ Len(log) = 1
    /\ log[1].metrics.clones = 51
    /\ log[1].metrics.string_allocations = 100
    /\ log[1].metrics.potential_n_plus_one = 0
    /\ log[1].advisories[1] = Advisory("excessive-clones", "medium", <<51>>, <<51>>)
    /\ Cardinality(OfType(log[1].advisories, "excessive-clones")) = 1
    /\ OfType(log[1].advisories, "string-allocations") = {}

(* C8: for an analysed crate with p public functions and t tests the gap   *)
(* list holds exactly one 'untested-functions' gap of severity high iff     *)
(* p > 0 and 2 * t < p (so p = 10, t = 2 and p = 5, t = 2 emit it; p = 10   *)
(* with t = 5 or 6 and p = 0 do not).                                       *)
C8_UntestedFunctions ==
    scanner = "testgaps" =>
        \A j \in 1..Len(log) :
            LET p == log[j].metrics.public_functions
                t == log[j].metrics.test_functions
                hits == OfType(log[j].advisories, "untested-functions")
            IN  /\ Cardinality(hits) = (IF p > 0 /\ 2 * t < p THEN 1 ELSE 0)
                /\ \A k \in hits : log[j].advisories[k].severity = "high"
                /\ p = tree[log[j].unit].public_functions
                /\ t = tree[log[j].unit].test_functions

C8_Witness ==
    /\ scanner = "testgaps"
    /\ Len(log) = 1
    /\ log[1].metrics.public_functions = 5
    /\ log[1].metrics.test_functions = 2
    /\ log[1].advisories[1].type = "untested-functions"
    /\ log[1].advisories[1].severity = "high"

(* C9: when two interleaved invocations have both read the same persisted  *)
(* index i and both finished, they selected the same unit, the log holds a  *)
(* record of each for that unit when its directory exists, and the          *)
(* persisted index is (i + 1) mod N: one of the two updates is lost.        *)
C9_LostUpdate ==
    ((\A p \in Procs : pc[p] = "done" /\ loc[p].raised = "none")
        /\ loc[1].loaded = loc[2].loaded) =>
        /\ loc[1].unit = loc[2].unit
        /\ loc[1].unit = UnitAt(loc[1].loaded)
        /\ PersistedIndex = (loc[1].loaded + 1) % N
        /\ PersistedIndex # (loc[1].loaded + 2) % N
        /\ tree[loc[1].unit].exists =>
              /\ Len(log) = 2
              /\ log[1].unit = loc[1].unit
              /\ log[2].unit = loc[1].unit

C9_Witness ==
    /\ \A p \in Procs : pc[p] = "done" /\ loc[p].raised = "none"
    /\ start.exists
    /\ loc[1].loaded = StartIndex
    /\ loc[2].loaded = StartIndex
    /\ tree[loc[1].unit].exists
    /\ Len(log) = 2
    /\ log[1].unit = log[2].unit
    /\ PersistedIndex = (StartIndex + 1) % N
    /\ PersistedIndex # (StartIndex + 2) % N

(* C10 as stated: every loaded index outside [0, N), negative ones          *)
(* included, is wrapped to 0: the invocation does not raise, selects the    *)
(* unit at position 0 and persists 1 mod N.                                 *)
C10_EveryOutOfRangeWraps ==
    (runs > 0 /\ (last.loaded < 0 \/ last.loaded >= N)) =>
        /\ last.raised = "none"
        /\ last.unit = Units[1]
        /\ PersistedIndex = 1 % N

(* C10 amended: only an index >= N is wrapped to 0 (unit at position 0,     *)
(* 1 mod N persisted); an index i with -N <= i < 0 is not wrapped: the      *)
(* invocation selects the unit at position N + i and persists (i + 1) mod   *)
(* N; an index below -N raises IndexError and writes nothing.               *)
C10_OnlyTooLargeWraps ==
    runs > 0 =>
        /\ last.loaded >= N =>
              /\ last.raised = "none"
              /\ last.unit = Units[1]
              /\ PersistedIndex = 1 % N
        /\ (0 - N <= last.loaded /\ last.loaded < 0) =>
              /\ last.raised = "none"
              /\ last.unit = Units[N + last.loaded + 1]
              /\ PersistedIndex = (last.loaded + 1) % N
        /\ last.loaded < 0 - N =>
              /\ last.raised = "IndexError"
              /\ stateFile = start
              /\ log = <<>>
              /\ saves = <<>>
              /\ selected = <<>>

C10_Witness ==
    /\ runs = 1
    /\ last.loaded = -1
    /\ last.raised = "none"
    /\ last.unit = Units[N]
    /\ PersistedIndex = 0

====
